---- MODULE Spec2Model ----
(***************************************************************************)
(* Community building manager: the template parser, the work generator,   *)
(* the review scheduling rules and the dashboard aggregator.              *)
(*                                                                         *)
(* Strings are sequences of one-character strings, so that split, strip,  *)
(* startswith and lstrip are computed character by character as Python    *)
(* computes them.  Instants are integers counting days.                   *)
(***************************************************************************)
EXTENDS Integers, Sequences, FiniteSets, TLC

VARIABLES
    template,     \* parser run: the input string handed to parse_markdown_template
    parsed,       \* parser run: the list the call returned
    ppc,          \* parser run: "start" before the call, "done" after it
    now,          \* the clock (days)
    assets,       \* table location_assets (committed rows)
    areas,        \* table work_areas (committed rows)
    items,        \* table work_items (committed rows)
    updates,      \* table updates (committed rows)
    gen,          \* the generation call in flight and its open transaction
    last,         \* what the last finished generation call was given and returned
    genOk,        \* per asset id: generation calls that committed
    requests,     \* requests received so far
    catalog,      \* table location_types when asset types are created on request
    reply,        \* the response to the last request of an administrator or manager
    sess,         \* concurrent generation: per session, the call and its transaction
    db            \* concurrent generation: the database's write lock and sequences

parserVars == <<template, parsed, ppc>>
sysVars == <<now, assets, areas, items, updates, gen, last, genOk, requests>>
catalogVars == <<catalog, reply>>
concVars == <<sess, db>>
\* the variables that the requests of the running application do not touch
apartVars == <<parserVars, catalogVars, concVars>>
vars == <<template, parsed, ppc, now, assets, areas, items, updates, gen, last, genOk,
          requests, catalog, reply, sess, db>>

----------------------------------------------------------------------------
(* Bounds *)

MaxLines == 4      \* lines of a parsed document
MaxRequests == 3   \* requests that attach an asset, generate again or add an update
MaxNow == 1        \* days the clock advances

----------------------------------------------------------------------------
(* Python string primitives *)

Whitespace == {" ", "\t", "\n"}

RECURSIVE LStripChars(_, _)
\* str.lstrip(chars): drop every leading character that is in chars
LStripChars(s, chars) ==
    IF s # <<>> /\ Head(s) \in chars THEN LStripChars(Tail(s), chars) ELSE s

RECURSIVE RStripChars(_, _)
RStripChars(s, chars) ==
    IF s # <<>> /\ s[Len(s)] \in chars
    THEN RStripChars(SubSeq(s, 1, Len(s) - 1), chars)
    ELSE s

\* str.strip(): drop leading and trailing whitespace
Strip(s) == RStripChars(LStripChars(s, Whitespace), Whitespace)

\* str.startswith(prefix)
StartsWith(s, prefix) ==
    Len(s) >= Len(prefix) /\ SubSeq(s, 1, Len(prefix)) = prefix

RECURSIVE SplitFrom(_, _, _)
SplitFrom(s, sep, cur) ==
    IF s = <<>> THEN <<cur>>
    ELSE IF Head(s) = sep THEN <<cur>> \o SplitFrom(Tail(s), sep, <<>>)
    ELSE SplitFrom(Tail(s), sep, Append(cur, Head(s)))

\* str.split(sep) for a one-character separator: "" splits to [""]
Split(s, sep) == SplitFrom(s, sep, <<>>)

RECURSIVE Join(_, _)
\* sep.join(lines)
Join(lines, sep) ==
    IF lines = <<>> THEN <<>>
    ELSE IF Len(lines) = 1 THEN lines[1]
    ELSE lines[1] \o <<sep>> \o Join(Tail(lines), sep)

----------------------------------------------------------------------------
(* parse_markdown_template *)

H2 == <<"#", "#", " ">>
H3 == <<"#", "#", "#", " ">>
DashBullet == <<"-", " ">>
StarBullet == <<"*", " ">>

\* Python's None for current_area, kept apart from every string
NoArea == [some |-> FALSE, val |-> <<>>]
SomeArea(t) == [some |-> TRUE, val |-> t]

\* truthiness of current_area: None and "" are both false
Truthy(a) == a.some /\ a.val # <<>>

IsHeading(line) == StartsWith(line, H2) \/ StartsWith(line, H3)
IsBullet(line) == StartsWith(line, DashBullet) \/ StartsWith(line, StarBullet)
HeadingTitle(line) == Strip(LStripChars(line, {"#", " "}))
BulletText(line) == Strip(LStripChars(line, {"-", "*", " "}))

\* a variant that starts with an unnamed area already open
ParseInitOpenArea ==
    [areas |-> <<>>, current_area |-> SomeArea(<<"*">>), current_items |-> <<>>]

ParseInit == [areas |-> <<>>, current_area |-> NoArea, current_items |-> <<>>]

\* a variant that keeps the open task list when a heading opens a new area
ParseLineKeepItems(st, raw) ==
    LET line == Strip(raw) IN
    IF IsHeading(line)
    THEN [areas |-> IF Truthy(st.current_area)
                    THEN Append(st.areas, <<st.current_area.val, st.current_items>>)
                    ELSE st.areas,
          current_area |-> SomeArea(HeadingTitle(line)),
          current_items |-> st.current_items]
    ELSE IF IsBullet(line) /\ BulletText(line) # <<>>
    THEN [st EXCEPT !.current_items = Append(@, BulletText(line))]
    ELSE st

\* a variant in which a line that is neither heading nor bullet ends the open area
ParseLineOtherCloses(st, raw) ==
    LET line == Strip(raw) IN
    IF IsHeading(line)
    THEN [areas |-> IF Truthy(st.current_area)
                    THEN Append(st.areas, <<st.current_area.val, st.current_items>>)
                    ELSE st.areas,
          current_area |-> SomeArea(HeadingTitle(line)),
          current_items |-> <<>>]
    ELSE IF IsBullet(line)
    THEN IF BulletText(line) # <<>>
         THEN [st EXCEPT !.current_items = Append(@, BulletText(line))]
         ELSE st
    ELSE [areas |-> IF Truthy(st.current_area)
                    THEN Append(st.areas, <<st.current_area.val, st.current_items>>)
                    ELSE st.areas,
          current_area |-> NoArea,
          current_items |-> <<>>]

\* one iteration of the loop over the lines
ParseLine(st, raw) ==
    LET line == Strip(raw) IN
    IF IsHeading(line)
    THEN [areas |-> IF Truthy(st.current_area)
                    THEN Append(st.areas, <<st.current_area.val, st.current_items>>)
                    ELSE st.areas,
          current_area |-> SomeArea(HeadingTitle(line)),
          current_items |-> <<>>]
    ELSE IF IsBullet(line) /\ BulletText(line) # <<>>
    THEN [st EXCEPT !.current_items = Append(@, BulletText(line))]
    ELSE st

RECURSIVE ParseLoop(_, _)
ParseLoop(st, lines) ==
    IF lines = <<>> THEN st ELSE ParseLoop(ParseLine(st, Head(lines)), Tail(lines))

\* the last area is appended after the loop
ParseFinish(st) ==
    IF Truthy(st.current_area)
    THEN Append(st.areas, <<st.current_area.val, st.current_items>>)
    ELSE st.areas

parse_markdown_template(t) == ParseFinish(ParseLoop(ParseInit, Split(t, "\n")))

----------------------------------------------------------------------------
(* Parser runs: the inputs are all documents of at most MaxLines lines     *)
(* drawn from LinePool.                                                    *)

LinePool ==
    { <<"#", "#", " ", "A">>,            \* ## A
      <<"#", "#", "#", " ", "B">>,       \* ### B
      <<"#", "#", " ", "#">>,            \* ## #
      <<"#", "#", " ", "#", "A">>,       \* ## #A (content that begins with #)
      <<" ", "#", "#", " ", "A", " ">>,  \*  ## A  (indented, trailing blank)
      <<"-", " ", "x">>,                 \* - x
      <<"*", " ", "y">>,                 \* * y
      <<"-", " ", "-">>,                 \* - -
      <<"-", "x">>,                      \* -x   (no blank after the marker)
      <<"#", " ", "A">>,                 \* # A  (first-level heading)
      <<"#", "#", "#", "#", " ", "A">>,  \* #### A (fourth-level heading)
      <<>> }                             \* blank line

RECURSIVE SeqsUpTo(_, _)
SeqsUpTo(S, n) ==
    IF n = 0 THEN {<<>>}
    ELSE LET shorter == SeqsUpTo(S, n - 1)
         IN shorter \cup {Append(s, x) : s \in {q \in shorter : Len(q) = n - 1}, x \in S}

Documents == {Join(ls, "\n") : ls \in SeqsUpTo(LinePool, MaxLines)}

ParserInit ==
    /\ template \in Documents
    /\ parsed = <<>>
    /\ ppc = "start"

Parse ==
    /\ ppc = "start"
    /\ parsed' = parse_markdown_template(template)
    /\ ppc' = "done"
    /\ UNCHANGED template
    /\ UNCHANGED <<sysVars, catalogVars, concVars>>

----------------------------------------------------------------------------
(* Rows that exist before any request: two organizations with one         *)
(* location each, one user, and a catalog of two asset types.             *)

Organizations == {1, 2}
Locations ==
    {[id |-> 1, organization_id |-> 1, name |-> "L1"],
     [id |-> 2, organization_id |-> 2, name |-> "L2"]}
Users == {1}

\* the authenticated user of a request: a users row with its organization
CurrentUsers == {[id |-> u, organization_id |-> o] : u \in Users, o \in Organizations}
Narratives == {<<"o", "k">>}

\* "## A\n- x\n- y\n### B": two areas, the second without tasks
TemplateAB ==
    Join(<< <<"#", "#", " ", "A">>, <<"-", " ", "x">>, <<"*", " ", "y">>,
            <<"#", "#", "#", " ", "B">> >>, "\n")

\* location_types rows: id 1 carries a checklist, id 2 an empty template
LocationTypes == {[id |-> 1, template |-> TemplateAB], [id |-> 2, template |-> <<>>]}

\* db.get(LocationType, type_id)
get_location_type_by_id(type_id) == {t \in LocationTypes : t.id = type_id}

\* Optional columns: NULL or a value
Null == [some |-> FALSE, val |-> <<>>]
NullDate == [some |-> FALSE, val |-> 0]
SomeDate(d) == [some |-> TRUE, val |-> d]

DueWindowDays == 30

\* review dates a request may carry, relative to the clock
ReviewOffsets == {-1, 0, DueWindowDays, DueWindowDays + 1}

Max(S) == IF S = {} THEN 0 ELSE CHOOSE m \in S : \A x \in S : x <= m

\* the next autoincrement primary key of a table
NextId(rows) == Max({r.id : r \in rows}) + 1

\* the rows of a set as a sequence, by ascending primary key: the row at
\* position k has k - 1 rows before it
InIdOrder(rows) ==
    [k \in 1..Cardinality(rows) |->
        CHOOSE r \in rows : Cardinality({q \in rows : q.id < r.id}) = k - 1]


Idle == [pc |-> "idle", caller |-> "none", asset |-> 0, areas_data |-> <<>>,
         i |-> 0, j |-> 0,
         area_id |-> 0, created |-> <<>>, txAreas |-> {}, txItems |-> {},
         pending |-> <<>>, preAreaIds |-> {}, preItemIds |-> {}]

\* no session holds the write lock; no key has been drawn from a sequence
NoDb == [dialect |-> "sqlite", lock |-> 0, area_seq |-> 0, item_seq |-> 0]

NoCall == [status |-> "none", caller |-> "none", add_asset |-> "none",
           asset |-> 0, areas_data |-> <<>>, created |-> <<>>,
           partial |-> FALSE,
           preAreaIds |-> {}, preItemIds |-> {}, postAreas |-> {}, postItems |-> {}]

----------------------------------------------------------------------------
(* Work generator.  A call runs in one session: db.add and db.flush write  *)
(* to the session's open transaction (txAreas, txItems, pending), which    *)
(* other sessions do not see; db.commit moves it to the committed tables;  *)
(* an exception ends the request, and closing the session rolls back.      *)

RECURSIVE SumTasks(_)
SumTasks(data) == IF data = <<>> THEN 0 ELSE Len(Head(data)[2]) + SumTasks(Tail(data))

RECURSIVE WithIds(_, _)
\* INSERT the pending rows in the order they were added
WithIds(pend, first) ==
    IF pend = <<>> THEN {}
    ELSE {[id |-> first, work_area_id |-> Head(pend).work_area_id,
           statement |-> Head(pend).statement, description |-> Head(pend).description]}
         \cup WithIds(Tail(pend), first + 1)

\* db.flush(): the pending work items get their primary keys
FlushItems(g) == g.txItems \cup WithIds(g.pending, NextId(items \cup g.txItems))

\* the loop moves to the next (area, items) pair, or leaves for db.commit()
NextArea(g) ==
    [g EXCEPT !.created = Append(@, g.area_id),
              !.i = @ + 1,
              !.j = 0,
              !.pc = IF g.i + 1 > Len(g.areas_data) THEN "commit" ELSE "area"]

\* generate_work_items_from_template up to the loop: parse, created_areas = []
BeginGeneration(asset_id, tmpl) ==
    LET data == parse_markdown_template(tmpl) IN
    [pc |-> IF data = <<>> THEN "commit" ELSE "area",
     caller |-> "generate_work_items_from_template",
     asset |-> asset_id, areas_data |-> data, i |-> 1, j |-> 0, area_id |-> 0,
     created |-> <<>>, txAreas |-> {}, txItems |-> {}, pending |-> <<>>,
     preAreaIds |-> {a.id : a \in areas}, preItemIds |-> {it.id : it \in items}]

\* add_asset_to_location: the asset row is committed first; generation follows
\* when the asset type exists and its template is not empty
AddAsset(location_id, asset_type_id) ==
    /\ gen.pc = "idle"
    /\ requests < MaxRequests
    /\ requests' = requests + 1
    /\ LET db_asset == [id |-> NextId(assets), location_id |-> location_id,
                        asset_type_id |-> asset_type_id]
           asset_type == get_location_type_by_id(asset_type_id)
       IN /\ assets' = assets \cup {db_asset}
          /\ genOk' = (db_asset.id :> 0) @@ genOk
          /\ gen' = IF \E t \in asset_type : t.template # <<>>
                    THEN [BeginGeneration(db_asset.id,
                                          (CHOOSE t \in asset_type : TRUE).template)
                            EXCEPT !.caller = "add_asset_to_location"]
                    ELSE gen
    /\ UNCHANGED <<now, areas, items, updates, last>>
    /\ UNCHANGED apartVars

\* add_asset_to_location when db.commit() of the asset row raises: the session
\* is closed, nothing is stored, generation is not reached and the exception
\* leaves the call
AddAssetFail(location_id, asset_type_id) ==
    /\ gen.pc = "idle"
    /\ requests < MaxRequests
    /\ requests' = requests + 1
    /\ last' = [NoCall EXCEPT !.status = "attach_failed",
                              !.caller = "add_asset_to_location",
                              !.add_asset = "raised",
                              !.preAreaIds = {a.id : a \in areas},
                              !.preItemIds = {it.id : it \in items},
                              !.postAreas = areas,
                              !.postItems = items]
    /\ UNCHANGED <<now, assets, areas, items, updates, gen, genOk>>
    /\ UNCHANGED apartVars

\* generate_work_items_from_template called again for an asset that exists,
\* with the template of its asset type
Regenerate(asset_id) ==
    /\ gen.pc = "idle"
    /\ requests < MaxRequests
    /\ requests' = requests + 1
    /\ \E a \in assets :
         /\ a.id = asset_id
         /\ \E t \in get_location_type_by_id(a.asset_type_id) :
              gen' = BeginGeneration(a.id, t.template)
    /\ UNCHANGED <<now, assets, areas, items, updates, last, genOk>>
    /\ UNCHANGED apartVars

\* a variant of the first half that reuses an equal area of the asset when
\* one is already stored
GenAreaDedup ==
    /\ gen.pc = "area"
    /\ LET pair == gen.areas_data[gen.i]
           same == {ar \in areas : ar.asset_id = gen.asset /\ ar.statement = pair[1]}
           work_area == IF same # {}
                        THEN CHOOSE ar \in same : TRUE
                        ELSE [id |-> NextId(areas \cup gen.txAreas), asset_id |-> gen.asset,
                              statement |-> pair[1], is_relevant |-> TRUE]
           flushed == [gen EXCEPT !.txAreas = IF same # {} THEN @ ELSE @ \cup {work_area},
                                  !.txItems = FlushItems(gen),
                                  !.pending = <<>>,
                                  !.area_id = work_area.id]
       IN gen' = IF pair[2] = <<>>
                 THEN NextArea(flushed)
                 ELSE [flushed EXCEPT !.pc = "items", !.j = 1]
    /\ UNCHANGED <<now, assets, areas, items, updates, last, genOk, requests>>
    /\ UNCHANGED apartVars

\* loop body, first half: WorkArea(...), db.add, db.flush
GenArea ==
    /\ gen.pc = "area"
    /\ LET pair == gen.areas_data[gen.i]
           work_area == [id |-> NextId(areas \cup gen.txAreas), asset_id |-> gen.asset,
                         statement |-> pair[1], is_relevant |-> TRUE]
           flushed == [gen EXCEPT !.txAreas = @ \cup {work_area},
                                  !.txItems = FlushItems(gen),
                                  !.pending = <<>>,
                                  !.area_id = work_area.id]
       IN gen' = IF pair[2] = <<>>
                 THEN NextArea(flushed)
                 ELSE [flushed EXCEPT !.pc = "items", !.j = 1]
    /\ UNCHANGED <<now, assets, areas, items, updates, last, genOk, requests>>
    /\ UNCHANGED apartVars

\* a variant of the second half that takes the asset's id for the area's id
GenItemWrongOwner ==
    /\ gen.pc = "items"
    /\ LET tasks == gen.areas_data[gen.i][2]
           work_item == [work_area_id |-> gen.asset, statement |-> tasks[gen.j],
                         description |-> Null]
           added == [gen EXCEPT !.pending = Append(@, work_item)]
       IN gen' = IF gen.j = Len(tasks)
                 THEN NextArea(added)
                 ELSE [added EXCEPT !.j = @ + 1]
    /\ UNCHANGED <<now, assets, areas, items, updates, last, genOk, requests>>
    /\ UNCHANGED apartVars

\* loop body, second half: one WorkItem(...), db.add
GenItem ==
    /\ gen.pc = "items"
    /\ LET tasks == gen.areas_data[gen.i][2]
           work_item == [work_area_id |-> gen.area_id, statement |-> tasks[gen.j],
                         description |-> Null]
           added == [gen EXCEPT !.pending = Append(@, work_item)]
       IN gen' = IF gen.j = Len(tasks)
                 THEN NextArea(added)
                 ELSE [added EXCEPT !.j = @ + 1]
    /\ UNCHANGED <<now, assets, areas, items, updates, last, genOk, requests>>
    /\ UNCHANGED apartVars

\* add_asset_to_location has no handler around the generation: it returns when
\* the generation returns and raises when the generation raises
Finished(status, g, postAreas, postItems) ==
    [status |-> status,
     caller |-> g.caller,
     add_asset |-> IF g.caller # "add_asset_to_location" THEN "none"
                   ELSE IF status = "failed" THEN "raised" ELSE "returned",
     asset |-> g.asset, areas_data |-> g.areas_data,
     created |-> g.created,
     partial |-> /\ g.txAreas # {}
                 /\ Cardinality(g.txAreas) < Len(g.areas_data)
                 /\ Cardinality(g.txItems) + Len(g.pending) >= 1,
     preAreaIds |-> g.preAreaIds, preItemIds |-> g.preItemIds,
     postAreas |-> postAreas, postItems |-> postItems]

\* a variant of the commit that replaces the asset's earlier areas and items
GenCommitReplace ==
    /\ gen.pc = "commit"
    /\ LET old == {ar \in areas : ar.asset_id = gen.asset}
       IN /\ areas' = (areas \ old) \cup gen.txAreas
          /\ items' = {it \in items : \A ar \in old : it.work_area_id # ar.id}
                          \cup FlushItems(gen)
    /\ last' = Finished("ok", gen, areas', items')
    /\ genOk' = [genOk EXCEPT ![gen.asset] = @ + 1]
    /\ gen' = Idle
    /\ UNCHANGED <<now, assets, updates, requests>>
    /\ UNCHANGED apartVars

\* db.commit(); return created_areas
GenCommit ==
    /\ gen.pc = "commit"
    /\ areas' = areas \cup gen.txAreas
    /\ items' = items \cup FlushItems(gen)
    /\ last' = Finished("ok", gen, areas', items')
    /\ genOk' = [genOk EXCEPT ![gen.asset] = @ + 1]
    /\ gen' = Idle
    /\ UNCHANGED <<now, assets, updates, requests>>
    /\ UNCHANGED apartVars

\* a variant of the failure in which the rows flushed so far stay stored
GenFailKeepFlushed ==
    /\ gen.pc \in {"area", "items", "commit"}
    /\ areas' = areas \cup gen.txAreas
    /\ items' = items \cup gen.txItems
    /\ UNCHANGED <<now, assets, updates, genOk, requests>>
    /\ last' = Finished("failed", [gen EXCEPT !.created = <<>>], areas', items')
    /\ gen' = Idle
    /\ UNCHANGED apartVars

\* a variant of the failure that also takes back the asset row
GenFailRemovesAsset ==
    /\ gen.pc \in {"area", "items", "commit"}
    /\ assets' = {a \in assets : a.id # gen.asset}
    /\ UNCHANGED <<now, areas, items, updates, genOk, requests>>
    /\ last' = Finished("failed", [gen EXCEPT !.created = <<>>], areas', items')
    /\ gen' = Idle
    /\ UNCHANGED apartVars

\* a storage error at db.add, db.flush or db.commit: the exception leaves the
\* call, the session is closed and its transaction rolled back
GenFail ==
    /\ gen.pc \in {"area", "items", "commit"}
    /\ UNCHANGED <<now, assets, areas, items, updates, genOk, requests>>
    /\ last' = Finished("failed", [gen EXCEPT !.created = <<>>], areas', items')
    /\ gen' = Idle
    /\ UNCHANGED apartVars

----------------------------------------------------------------------------
(* Updates and the clock *)

\* get_work_item_by_id
get_work_item_by_id(item_id) == {it \in items : it.id = item_id}

\* a variant that keeps only the newest update of the item
AddUpdateReplacingHistory(item_id, user_id, narrative, review_date) ==
    IF get_work_item_by_id(item_id) = {}
    THEN updates
    ELSE {u \in updates : u.work_item_id # item_id}
         \cup {[id |-> NextId(updates), work_item_id |-> item_id,
                 user_id |-> user_id, narrative |-> narrative,
                 review_date |-> review_date, created_at |-> now]}

\* a variant that inserts the row without looking the item up
AddUpdateToAnyItem(item_id, user_id, narrative, review_date) ==
    updates \cup {[id |-> NextId(updates), work_item_id |-> item_id,
                   user_id |-> user_id, narrative |-> narrative,
                   review_date |-> review_date, created_at |-> now]}

\* add_update_to_item: None for an unknown item, else one new row;
\* created_at defaults to the clock
add_update_to_item(item_id, user_id, narrative, review_date) ==
    IF get_work_item_by_id(item_id) = {}
    THEN updates
    ELSE updates \cup {[id |-> NextId(updates), work_item_id |-> item_id,
                        user_id |-> user_id, narrative |-> narrative,
                        review_date |-> review_date, created_at |-> now]}

AddUpdate(item_id, user_id, narrative, review_date) ==
    /\ requests < MaxRequests
    /\ requests' = requests + 1
    /\ updates' = add_update_to_item(item_id, user_id, narrative, review_date)
    /\ UNCHANGED <<now, assets, areas, items, gen, last, genOk>>
    /\ UNCHANGED apartVars

\* time passes
Tick ==
    /\ now < MaxNow
    /\ now' = now + 1
    /\ UNCHANGED <<assets, areas, items, updates, gen, last, genOk, requests>>
    /\ UNCHANGED apartVars

----------------------------------------------------------------------------
(* Dashboard queries, evaluated on the committed tables at the clock's     *)
(* instant.  Conditions follow SQL: a comparison with NULL is unknown, and *)
(* WHERE and EXISTS keep a row only when its condition is true.            *)

SqlLt(a, b) == IF a.some THEN (IF a.val < b THEN "T" ELSE "F") ELSE "U"
SqlLe(a, b) == IF a.some THEN (IF a.val <= b THEN "T" ELSE "F") ELSE "U"
SqlGe(a, b) == IF a.some THEN (IF a.val >= b THEN "T" ELSE "F") ELSE "U"
SqlIsNotNull(a) == IF a.some THEN "T" ELSE "F"
SqlAnd(p, q) == IF p = "F" \/ q = "F" THEN "F" ELSE IF p = "T" /\ q = "T" THEN "T" ELSE "U"
SqlOr(p, q) == IF p = "T" \/ q = "T" THEN "T" ELSE IF p = "F" /\ q = "F" THEN "F" ELSE "U"
SqlNot(p) == IF p = "T" THEN "F" ELSE IF p = "F" THEN "T" ELSE "U"

\* WHERE cond: the rows of updates on which the condition is true
Where(cond) == {u \in DOMAIN cond : cond[u] = "T"}

\* WorkItem.updates.any(cond): EXISTS over the item's updates
UpdatesAny(it, cond) ==
    IF \E u \in Where(cond) : u.work_item_id = it.id THEN "T" ELSE "F"

\* a variant of the join without the condition on the organization
JoinedRowsAnyOrg(org_id) ==
    UNION {UNION {UNION {
        {<<it, ar, a, loc>> : loc \in {l \in Locations : l.id = a.location_id}}
        : a \in {x \in assets : x.id = ar.asset_id}}
        : ar \in {x \in areas : x.id = it.work_area_id}}
        : it \in items}

\* a variant of the join that does not tie the work area to its asset
JoinedRowsAnyAsset(org_id) ==
    UNION {UNION {UNION {
        {<<it, ar, a, loc>> : loc \in {l \in Locations : /\ l.id = a.location_id
                                                         /\ l.organization_id = org_id}}
        : a \in assets}
        : ar \in {x \in areas : x.id = it.work_area_id}}
        : it \in items}

\* a variant that joins only the work areas that are marked relevant
JoinedRowsRelevantOnly(org_id) ==
    UNION {UNION {UNION {
        {<<it, ar, a, loc>> : loc \in {l \in Locations : /\ l.id = a.location_id
                                                         /\ l.organization_id = org_id}}
        : a \in {x \in assets : x.id = ar.asset_id}}
        : ar \in {x \in areas : x.id = it.work_area_id /\ x.is_relevant}}
        : it \in items}

\* select(WorkItem).join(WorkArea).join(LocationAsset).join(Location)
\*   .where(Location.organization_id == org_id): one row <<item, area, asset,
\* location>> per combination that satisfies the joins and the condition
JoinedRows(org_id) ==
    UNION {UNION {UNION {
        {<<it, ar, a, loc>> : loc \in {l \in Locations : /\ l.id = a.location_id
                                                         /\ l.organization_id = org_id}}
        : a \in {x \in assets : x.id = ar.asset_id}}
        : ar \in {x \in areas : x.id = it.work_area_id}}
        : it \in items}

\* the work items of the joined rows
OrgItems(org_id) == {row[1] : row \in JoinedRows(org_id)}

\* the joined rows whose work item is among the selected ones
SelectedRows(org_id, selected) == {row \in JoinedRows(org_id) : row[1] \in selected}

\* the same query with the past-review test put on the last update only
OutstandingByLastUpdate(org_id) ==
    {it \in OrgItems(org_id) :
        LET PastDue == [u \in updates |->
                SqlAnd(SqlAnd(SqlIsNotNull(u.review_date), SqlLt(u.review_date, now)),
                       IF \A v \in updates : v.work_item_id = it.id => v.id <= u.id
                       THEN "T" ELSE "F")]
            NoCond == [u \in updates |-> "T"]
        IN SqlOr(SqlNot(UpdatesAny(it, NoCond)), UpdatesAny(it, PastDue)) = "T"}

\* _get_outstanding_items_for_org
get_outstanding_items_for_org(org_id) ==
    LET PastDue == [u \in updates |->
            SqlAnd(SqlIsNotNull(u.review_date), SqlLt(u.review_date, now))]
        NoCond == [u \in updates |-> "T"]
    IN {it \in OrgItems(org_id) :
            SqlOr(SqlNot(UpdatesAny(it, NoCond)), UpdatesAny(it, PastDue)) = "T"}

\* the same query with the upper bound of the window excluded
DueBeforeWindowEnd(org_id) ==
    LET next_month == now + DueWindowDays
        Due == [u \in updates |->
            SqlAnd(SqlIsNotNull(u.review_date),
                   SqlAnd(SqlGe(u.review_date, now),
                          SqlLt(u.review_date, next_month)))]
    IN {it \in OrgItems(org_id) : UpdatesAny(it, Due) = "T"}

\* the due-soon query made exclusive of the outstanding set
DueSoonNotOutstanding(org_id) ==
    LET next_month == now + DueWindowDays
        Due == [u \in updates |->
            SqlAnd(SqlIsNotNull(u.review_date),
                   SqlAnd(SqlGe(u.review_date, now),
                          SqlLe(u.review_date, next_month)))]
    IN {it \in OrgItems(org_id) \ get_outstanding_items_for_org(org_id) :
            UpdatesAny(it, Due) = "T"}

\* _get_items_due_next_month
get_items_due_next_month(org_id) ==
    LET next_month == now + DueWindowDays
        Due == [u \in updates |->
            SqlAnd(SqlIsNotNull(u.review_date),
                   SqlAnd(SqlGe(u.review_date, now),
                          SqlLe(u.review_date, next_month)))]
    IN {it \in OrgItems(org_id) : UpdatesAny(it, Due) = "T"}

\* a variant that counts only the work items that have an update
CountUpdatedItems(org_id) ==
    Cardinality({row \in JoinedRows(org_id) :
                    \E u \in updates : u.work_item_id = row[1].id})

\* _count_total_items_for_org: len() of the joined rows
count_total_items_for_org(org_id) == Cardinality(JoinedRows(org_id))

\* the tables of the join: work_items, work_areas, location_assets, locations
JoinTables == 1..4

\* the primary keys of a joined row as the nested loops of a plan that scans
\* table d first reach it: table d, then the tables in the order of the join
ScanKey(row, d) == <<row[d].id, row[1].id, row[2].id, row[3].id, row[4].id>>

\* the lexicographic order of two scan keys
ScannedBefore(k1, k2) ==
    \E n \in 1..Len(k1) : k1[n] < k2[n] /\ \A m \in 1..(n - 1) : k1[m] = k2[m]

\* the joined rows in the order of a nested-loop join that scans table d first,
\* by primary key, and within one of its rows the work items by primary key:
\* the row at position k has k - 1 rows before it
ScanOrder(rows, d) ==
    [k \in 1..Cardinality(rows) |->
        CHOOSE r \in rows :
            Cardinality({q \in rows : ScannedBefore(ScanKey(q, d), ScanKey(r, d))})
                = k - 1]

\* list(db.exec(select(WorkItem)...).all()): the work item of every selected
\* row.  The statement has no ORDER BY: the rows come in the order of the join
\* plan the database chooses, that is, of the table it scans first
Fetch(org_id, selected) ==
    UNION {{[k \in 1..Len(ordered) |-> ordered[k][1]] :
                ordered \in {ScanOrder(rows, d) : d \in JoinTables}}
           : rows \in {SelectedRows(org_id, selected)}}

\* raise HTTPException(status_code=403, detail=...)
Forbidden == [status |-> 403, detail |-> "Access denied to this organization"]
Ok(body) == [status |-> 200, body |-> body]

\* DashboardStats(...): len() of the three result lists
DashboardStats(org_id) ==
    [outstanding_count |->
        Cardinality(SelectedRows(org_id, get_outstanding_items_for_org(org_id))),
     due_next_month_count |->
        Cardinality(SelectedRows(org_id, get_items_due_next_month(org_id))),
     total_items |-> count_total_items_for_org(org_id)]

\* GET /dashboard/stats/{org_id}
get_dashboard_stats(current_user, org_id) ==
    IF current_user.organization_id # org_id
    THEN Forbidden
    ELSE Ok(DashboardStats(org_id))

\* item.updates: the collection is loaded by one SELECT on the updates table,
\* whose rows are only ever appended; it lists them in primary key order
item_updates(it) == InIdOrder({u \in updates : u.work_item_id = it.id})

\* select(Location).join(LocationAsset).join(WorkArea)
\*   .where(WorkArea.id == item.work_area_id).first(), then its name or "Unknown"
location_name(it) ==
    LET found == {loc \in Locations :
                    \E a \in assets, ar \in areas :
                        /\ loc.id = a.location_id
                        /\ a.id = ar.asset_id
                        /\ ar.id = it.work_area_id}
    IN IF found = {} THEN "Unknown" ELSE (CHOOSE loc \in found : TRUE).name

NoDays == [some |-> FALSE, val |-> 0]
SomeDays(d) == [some |-> TRUE, val |-> d]

\* a variant that measures from the first update of the item
DaysSinceFirstUpdate(it) ==
    LET ups == item_updates(it)
    IN IF ups = <<>> THEN NoDays ELSE SomeDays(now - ups[1].created_at)

\* last_update = item.updates[-1] if item.updates else None;
\* (now - last_update.created_at).days, instants being whole days
days_since_update(it) ==
    LET ups == item_updates(it)
    IN IF ups = <<>> THEN NoDays ELSE SomeDays(now - ups[Len(ups)].created_at)

\* item.work_area.statement
work_area_statement(it) == (CHOOSE ar \in areas : ar.id = it.work_area_id).statement

\* OutstandingItem(...): one row of a listing
OutstandingItem(it) ==
    [id |-> it.id,
     statement |-> it.statement,
     work_area_statement |-> work_area_statement(it),
     location_name |-> location_name(it),
     days_since_update |-> days_since_update(it)]

\* the loop over the fetched items: one row per item, in the fetched order
Listing(fetched) == [k \in 1..Len(fetched) |-> OutstandingItem(fetched[k])]

\* GET /dashboard/outstanding/{org_id}: the responses the request may receive
get_outstanding_items(current_user, org_id) ==
    IF current_user.organization_id # org_id
    THEN {Forbidden}
    ELSE {Ok(Listing(fetched)) : fetched \in Fetch(org_id, get_outstanding_items_for_org(org_id))}

\* a variant of the due-soon handler without the check of the organization
GetDueSoonItemsUnchecked(current_user, org_id) ==
    {Ok(Listing(fetched)) : fetched \in Fetch(org_id, get_items_due_next_month(org_id))}

\* GET /dashboard/due-soon/{org_id}: the responses the request may receive
get_due_soon_items(current_user, org_id) ==
    IF current_user.organization_id # org_id
    THEN {Forbidden}
    ELSE {Ok(Listing(fetched)) : fetched \in Fetch(org_id, get_items_due_next_month(org_id))}

----------------------------------------------------------------------------
(* Requests of a manager: DELETE /locations/{id}/assets/{id} and           *)
(* PATCH /work/areas/{id}/relevance.  The database is SQLite as            *)
(* configured: foreign keys are not enforced, NOT NULL is, and a session   *)
(* that has flushed holds the write lock until it commits or rolls back.   *)

Replied(op, status) == [op |-> op, status |-> status, count |-> 0, created |-> 0]

\* no generation has flushed: the write lock is free
WriteLockFree == gen.txAreas = {} /\ gen.txItems = {}

\* db.get(LocationAsset, asset_id)
get_location_asset(asset_id) == {a \in assets : a.id = asset_id}

\* the rows of the relationship LocationAsset.work_areas
work_areas_of(asset_id) == {ar \in areas : ar.asset_id = asset_id}

\* remove_asset_from_location: False when the asset is unknown or belongs to
\* another location.  db.delete and db.commit flush the delete: the relationship
\* work_areas has no delete cascade, so the session sets asset_id of the asset's
\* work areas to NULL, and the column is NOT NULL: with work areas the flush
\* raises and the asset stays; without, the row is deleted
remove_asset_from_location(location_id, asset_id) ==
    LET db_asset == get_location_asset(asset_id) IN
    IF db_asset = {} \/ \E a \in db_asset : a.location_id # location_id
    THEN [assets |-> assets, result |-> "False"]
    ELSE IF work_areas_of(asset_id) # {}
    THEN [assets |-> assets, result |-> "IntegrityError"]
    ELSE [assets |-> assets \ db_asset, result |-> "True"]

\* DELETE /locations/{location_id}/assets/{asset_id}: 404 for an unknown
\* location or a False result, 204 otherwise; an exception is answered 500
remove_asset(location_id, asset_id) ==
    /\ requests < MaxRequests
    /\ requests' = requests + 1
    /\ WriteLockFree
    /\ IF \A loc \in Locations : loc.id # location_id
       THEN /\ assets' = assets
            /\ reply' = Replied("remove_asset", 404)
       ELSE LET removed == remove_asset_from_location(location_id, asset_id)
            IN /\ assets' = removed.assets
               /\ reply' = Replied("remove_asset",
                                   CASE removed.result = "True" -> 204
                                     [] removed.result = "False" -> 404
                                     [] OTHER -> 500)
    /\ UNCHANGED <<now, areas, items, updates, gen, last, genOk>>
    /\ UNCHANGED <<parserVars, catalog, concVars>>

\* get_work_area_by_id
get_work_area_by_id(area_id) == {ar \in areas : ar.id = area_id}

\* a variant that sets the flag on every work area of the same asset
RelevanceOfWholeAsset(area_id, is_relevant) ==
    LET area == get_work_area_by_id(area_id) IN
    {IF \E x \in area : x.asset_id = ar.asset_id
     THEN [ar EXCEPT !.is_relevant = is_relevant] ELSE ar : ar \in areas}

\* update_work_area_relevance: None for an unknown area, else the area with
\* the flag set; the table after the call
update_work_area_relevance(area_id, is_relevant) ==
    {IF ar.id = area_id THEN [ar EXCEPT !.is_relevant = is_relevant] ELSE ar : ar \in areas}

\* PATCH /work/areas/{area_id}/relevance: 404 when the service returns None
set_area_relevance(area_id, is_relevant) ==
    /\ requests < MaxRequests
    /\ requests' = requests + 1
    /\ WriteLockFree
    /\ areas' = update_work_area_relevance(area_id, is_relevant)
    /\ reply' = Replied("set_area_relevance",
                        IF get_work_area_by_id(area_id) = {} THEN 404 ELSE 200)
    /\ UNCHANGED <<now, assets, items, updates, gen, last, genOk>>
    /\ UNCHANGED <<parserVars, catalog, concVars>>

\* POST /work/items/{item_id}/updates: 404 for an unknown item, before the
\* service is called; else the update is added and returned with 201
add_item_update(item_id, user_id, narrative, review_date) ==
    /\ requests < MaxRequests
    /\ requests' = requests + 1
    /\ IF get_work_item_by_id(item_id) = {}
       THEN /\ reply' = Replied("add_item_update", 404)
            /\ UNCHANGED updates
       ELSE /\ WriteLockFree
            /\ updates' = add_update_to_item(item_id, user_id, narrative, review_date)
            /\ reply' = Replied("add_item_update", 201)
    /\ UNCHANGED <<now, assets, areas, items, gen, last, genOk>>
    /\ UNCHANGED <<parserVars, catalog, concVars>>

----------------------------------------------------------------------------
(* POST /work/assets/{id}/areas and POST /work/areas/{id}/items.  The      *)
(* handlers call create_work_area and create_work_item of the work         *)
(* service, which the service does not define; they are taken to insert    *)
(* the row that the schema describes and the handler returns with 201.     *)

ManualStatements == {<<"M">>}

\* create_work_area(db, area_data): one row from WorkAreaCreate
create_work_area(asset_id, statement, is_relevant) ==
    areas \cup {[id |-> NextId(areas), asset_id |-> asset_id, statement |-> statement,
                 is_relevant |-> is_relevant]}

\* POST /work/assets/{asset_id}/areas: the asset id of the path is put into the
\* data and the area is created; the asset is not looked up
add_work_area(asset_id, statement, is_relevant) ==
    /\ requests < MaxRequests
    /\ requests' = requests + 1
    /\ WriteLockFree
    /\ areas' = create_work_area(asset_id, statement, is_relevant)
    /\ reply' = Replied("add_work_area", 201)
    /\ UNCHANGED <<now, assets, items, updates, gen, last, genOk>>
    /\ UNCHANGED <<parserVars, catalog, concVars>>

\* create_work_item(db, item_data): one row from WorkItemCreate
create_work_item(area_id, statement, description) ==
    items \cup {[id |-> NextId(items), work_area_id |-> area_id, statement |-> statement,
                 description |-> description]}

\* POST /work/areas/{area_id}/items: the area id of the path is put into the
\* data and the item is created; the area is not looked up
add_work_item(area_id, statement, description) ==
    /\ requests < MaxRequests
    /\ requests' = requests + 1
    /\ WriteLockFree
    /\ items' = create_work_item(area_id, statement, description)
    /\ reply' = Replied("add_work_item", 201)
    /\ UNCHANGED <<now, assets, areas, updates, gen, last, genOk>>
    /\ UNCHANGED <<parserVars, catalog, concVars>>

----------------------------------------------------------------------------
(* Two generation calls at once, each in its own session, for two assets   *)
(* that are stored.  The database is SQLite or PostgreSQL (db/base.py).    *)
(* SQLite: the first flush of a session takes the write lock, which it     *)
(* holds until commit or rollback, and a new row gets the key after the    *)
(* greatest key the session sees.  PostgreSQL: sessions write side by      *)
(* side, and a new row gets the next value of the table's sequence.        *)

Sessions == {1, 2}
Dialects == {"sqlite", "postgresql"}

\* "## A\n- x"
TemplateA == Join(<< <<"#", "#", " ", "A">>, <<"-", " ", "x">> >>, "\n")

\* the templates the two calls may be given
ConcTemplates == {TemplateAB, TemplateA}

\* the assets of the two calls: session s generates for asset s
ConcAssets ==
    {[id |-> 1, location_id |-> 1, asset_type_id |-> 1],
     [id |-> 2, location_id |-> 2, asset_type_id |-> 1]}

\* the session may write: with SQLite, when no other session holds the lock
CanWrite(s) == db.dialect = "sqlite" => db.lock \in {0, s}

\* the database after a write of session s that drew the given numbers of keys
AfterWrite(s, area_keys, item_keys) ==
    [db EXCEPT !.lock = IF db.dialect = "sqlite" THEN s ELSE @,
               !.area_seq = @ + area_keys,
               !.item_seq = @ + item_keys]

\* the key of the next row of work_areas, as session s sees the table
NextAreaKey(s) ==
    IF db.dialect = "sqlite" THEN NextId(areas \cup sess[s].txAreas) ELSE db.area_seq + 1

\* the key of the next row of work_items, as session s sees the table
NextItemKey(s) ==
    IF db.dialect = "sqlite" THEN NextId(items \cup sess[s].txItems) ELSE db.item_seq + 1

\* db.flush() of the pending work items of session s
FlushItemsOf(s) == sess[s].txItems \cup WithIds(sess[s].pending, NextItemKey(s))

\* loop body, first half, in session s: WorkArea(...), db.add, db.flush
SessionGenArea(s) ==
    /\ sess[s].pc = "area"
    /\ CanWrite(s)
    /\ LET g == sess[s]
           pair == g.areas_data[g.i]
           work_area == [id |-> NextAreaKey(s), asset_id |-> g.asset,
                         statement |-> pair[1], is_relevant |-> TRUE]
           flushed == [g EXCEPT !.txAreas = @ \cup {work_area},
                                !.txItems = FlushItemsOf(s),
                                !.pending = <<>>,
                                !.area_id = work_area.id]
       IN /\ sess' = [sess EXCEPT ![s] = IF pair[2] = <<>>
                                         THEN NextArea(flushed)
                                         ELSE [flushed EXCEPT !.pc = "items", !.j = 1]]
          /\ db' = AfterWrite(s, 1, Len(g.pending))
    /\ UNCHANGED <<sysVars, parserVars, catalogVars>>

\* a variant in which the area of the item is the area that any session
\* flushed last
SessionGenItemSharedArea(s) ==
    /\ sess[s].pc = "items"
    /\ LET g == sess[s]
           tasks == g.areas_data[g.i][2]
           work_item == [work_area_id |-> Max({sess[t].area_id : t \in Sessions}),
                         statement |-> tasks[g.j], description |-> Null]
           added == [g EXCEPT !.pending = Append(@, work_item)]
       IN sess' = [sess EXCEPT ![s] = IF g.j = Len(tasks)
                                      THEN NextArea(added)
                                      ELSE [added EXCEPT !.j = @ + 1]]
    /\ UNCHANGED <<sysVars, parserVars, catalogVars, db>>

\* loop body, second half, in session s: one WorkItem(...), db.add
SessionGenItem(s) ==
    /\ sess[s].pc = "items"
    /\ LET g == sess[s]
           tasks == g.areas_data[g.i][2]
           work_item == [work_area_id |-> g.area_id, statement |-> tasks[g.j],
                         description |-> Null]
           added == [g EXCEPT !.pending = Append(@, work_item)]
       IN sess' = [sess EXCEPT ![s] = IF g.j = Len(tasks)
                                      THEN NextArea(added)
                                      ELSE [added EXCEPT !.j = @ + 1]]
    /\ UNCHANGED <<sysVars, parserVars, catalogVars, db>>

\* db.commit() in session s, return created_areas: the session keeps what it
\* wrote in txAreas and txItems
SessionGenCommit(s) ==
    /\ sess[s].pc = "commit"
    /\ CanWrite(s)
    /\ areas' = areas \cup sess[s].txAreas
    /\ items' = items \cup FlushItemsOf(s)
    /\ sess' = [sess EXCEPT ![s] = [@ EXCEPT !.pc = "returned",
                                             !.txItems = FlushItemsOf(s),
                                             !.pending = <<>>]]
    /\ db' = [AfterWrite(s, 0, Len(sess[s].pending)) EXCEPT !.lock = 0]
    /\ UNCHANGED <<now, assets, updates, gen, last, genOk, requests>>
    /\ UNCHANGED <<parserVars, catalogVars>>

\* a storage error in session s, a wait for the write lock that times out
\* included: the exception leaves the call and the transaction is rolled back
SessionGenFail(s) ==
    /\ sess[s].pc \in {"area", "items", "commit"}
    /\ sess' = [sess EXCEPT ![s] = [@ EXCEPT !.pc = "failed", !.created = <<>>,
                                             !.txAreas = {}, !.txItems = {},
                                             !.pending = <<>>]]
    /\ db' = [db EXCEPT !.lock = IF @ = s THEN 0 ELSE @]
    /\ UNCHANGED <<sysVars, parserVars, catalogVars>>

----------------------------------------------------------------------------
(* Asset type catalog: POST /asset-types and                               *)
(* POST /asset-types/initialize-defaults against the table location_types. *)

\* the keys of DEFAULT_ASSET_TYPES in the order of the dict
DefaultNames ==
    <<"Scout HQ", "Church", "Church Hall", "Scout Activity Centre", "Scout Campsite",
      "Community Building">>

\* DEFAULT_ASSET_TYPES: name -> template (each checklist shortened to two areas)
DEFAULT_ASSET_TYPES == [n \in {DefaultNames[k] : k \in 1..Len(DefaultNames)} |-> TemplateAB]

\* f"Scout organization {asset_name.lower()} with standard maintenance template"
DefaultDescription ==
    [n \in DOMAIN DEFAULT_ASSET_TYPES |->
        CASE n = "Scout HQ" -> "Scout organization scout hq with standard maintenance template"
          [] n = "Church" -> "Scout organization church with standard maintenance template"
          [] n = "Church Hall" ->
                "Scout organization church hall with standard maintenance template"
          [] n = "Scout Activity Centre" ->
                "Scout organization scout activity centre with standard maintenance template"
          [] n = "Scout Campsite" ->
                "Scout organization scout campsite with standard maintenance template"
          [] n = "Community Building" ->
                "Scout organization community building with standard maintenance template"]

\* names, descriptions and templates a request to create an asset type may carry
RequestNames == {"Scout HQ", "Church", "Shed"}
RequestDescriptions == {"Test", "Different"}
RequestTemplates == {TemplateAB, <<>>}

NoReply == [op |-> "none", status |-> 0, count |-> 0, created |-> 0]

\* select(LocationType).where(LocationType.name == name).first()
TypeByName(rows, name) == {t \in rows : t.name = name}

\* create_location_type: INSERT one row; the column name is unique, so the
\* INSERT of a name that is stored raises and stores nothing
create_location_type(rows, name, description, template_text) ==
    IF TypeByName(rows, name) # {}
    THEN rows
    ELSE rows \cup {[id |-> NextId(rows), name |-> name, description |-> description,
                      template |-> template_text]}

\* a variant of the handler without the check of the name
CreateAssetTypeUnchecked(name, description, template_text) ==
    /\ requests < MaxRequests
    /\ requests' = requests + 1
    /\ catalog' = catalog \cup {[id |-> NextId(catalog), name |-> name,
                                  description |-> description, template |-> template_text]}
    /\ reply' = [op |-> "create_asset_type", status |-> 201,
                 count |-> 1, created |-> Cardinality(catalog') - Cardinality(catalog)]
    /\ UNCHANGED <<now, assets, areas, items, updates, gen, last, genOk>>
    /\ UNCHANGED <<parserVars, concVars>>

\* POST /asset-types: 409 when the name is stored, else create and 201
create_asset_type(name, description, template_text) ==
    /\ requests < MaxRequests
    /\ requests' = requests + 1
    /\ IF TypeByName(catalog, name) # {}
       THEN /\ catalog' = catalog
            /\ reply' = [op |-> "create_asset_type", status |-> 409,
                         count |-> 0, created |-> 0]
       ELSE /\ catalog' = create_location_type(catalog, name, description, template_text)
            /\ reply' = [op |-> "create_asset_type", status |-> 201,
                         count |-> 1,
                         created |-> Cardinality(catalog') - Cardinality(catalog)]
    /\ UNCHANGED <<now, assets, areas, items, updates, gen, last, genOk>>
    /\ UNCHANGED <<parserVars, concVars>>

RECURSIVE AddMissingDefaults(_, _)
\* the loop of initialize_default_asset_types from the k-th default on: a
\* default is added when no asset type has its name
AddMissingDefaults(rows, k) ==
    IF k > Len(DefaultNames) THEN rows
    ELSE AddMissingDefaults(
            IF TypeByName(rows, DefaultNames[k]) = {}
            THEN rows \cup {[id |-> NextId(rows), name |-> DefaultNames[k],
                              description |-> DefaultDescription[DefaultNames[k]],
                              template |-> DEFAULT_ASSET_TYPES[DefaultNames[k]]]}
            ELSE rows,
            k + 1)

\* initialize_default_asset_types: the table after the loop and the commit
initialize_default_asset_types(rows) == AddMissingDefaults(rows, 1)

\* POST /asset-types/initialize-defaults: 201 with all asset types
initialize_defaults ==
    /\ requests < MaxRequests
    /\ requests' = requests + 1
    /\ catalog' = initialize_default_asset_types(catalog)
    /\ reply' = [op |-> "initialize_defaults", status |-> 201,
                 count |-> Cardinality(catalog'),
                 created |-> Cardinality(catalog') - Cardinality(catalog)]
    /\ UNCHANGED <<now, assets, areas, items, updates, gen, last, genOk>>
    /\ UNCHANGED <<parserVars, concVars>>

----------------------------------------------------------------------------
(* Specifications *)

ParserIdle ==
    /\ template = <<>>
    /\ parsed = <<>>
    /\ ppc = "idle"

SysInit ==
    /\ now = 0
    /\ assets = {}
    /\ areas = {}
    /\ items = {}
    /\ updates = {}
    /\ gen = Idle
    /\ last = NoCall
    /\ genOk = <<>>
    /\ requests = 0

CatalogIdle ==
    /\ catalog = {}
    /\ reply = NoReply

ConcIdle ==
    /\ sess = <<>>
    /\ db = NoDb

\* the running application: requests against an empty database
Init == ParserIdle /\ SysInit /\ CatalogIdle /\ ConcIdle

Next ==
    \/ \E loc \in Locations, t \in LocationTypes : AddAsset(loc.id, t.id)
    \/ \E loc \in Locations, t \in LocationTypes : AddAssetFail(loc.id, t.id)
    \/ \E a \in assets : Regenerate(a.id)
    \/ GenArea
    \/ GenItem
    \/ GenCommit
    \/ GenFail
    \/ \E item_id \in 1..NextId(items), user_id \in Users, narrative \in Narratives,
          review_date \in {NullDate} \cup {SomeDate(now + d) : d \in ReviewOffsets} :
            AddUpdate(item_id, user_id, narrative, review_date)
    \/ Tick

Spec == Init /\ [][Next]_vars

\* parse_markdown_template applied to every document of Documents
ParserSpecInit == ParserInit /\ SysInit /\ CatalogIdle /\ ConcIdle

ParserNext == Parse

ParserSpec == ParserSpecInit /\ [][ParserNext]_vars

\* the running application with the requests of a manager that remove an
\* asset and set the relevance of a work area
ManagerNext ==
    \/ Next
    \/ \E loc \in Locations, asset_id \in 1..NextId(assets) : remove_asset(loc.id, asset_id)
    \/ \E area_id \in 1..NextId(areas), is_relevant \in BOOLEAN :
          set_area_relevance(area_id, is_relevant)
    \/ \E item_id \in 1..NextId(items), user_id \in Users, narrative \in Narratives,
          review_date \in {NullDate} \cup {SomeDate(now + d) : d \in ReviewOffsets} :
            add_item_update(item_id, user_id, narrative, review_date)

ManagerSpec == Init /\ [][ManagerNext]_vars

\* the same with a clock that does not stop while it can advance
ManagerFairSpec == ManagerSpec /\ WF_vars(Tick)

\* the same with the routes that add a work area and a work item
WorkItemsNext ==
    \/ ManagerNext
    \/ \E asset_id \in 1..NextId(assets), statement \in ManualStatements :
          add_work_area(asset_id, statement, TRUE)
    \/ \E area_id \in 1..NextId(areas), statement \in ManualStatements :
          add_work_item(area_id, statement, Null)

WorkItemsSpec == Init /\ [][WorkItemsNext]_vars

\* two calls of generate_work_items_from_template, given any two of the
\* templates, start together on a database with the two assets and no work
ConcInit ==
    /\ ParserIdle
    /\ CatalogIdle
    /\ now = 0
    /\ assets = ConcAssets
    /\ areas = {}
    /\ items = {}
    /\ updates = {}
    /\ gen = Idle
    /\ last = NoCall
    /\ genOk = <<>>
    /\ requests = 0
    /\ \E dialect \in Dialects : db = [NoDb EXCEPT !.dialect = dialect]
    /\ \E given \in [Sessions -> ConcTemplates] :
          sess = [s \in Sessions |-> BeginGeneration(s, given[s])]

ConcNext ==
    \E s \in Sessions :
        \/ SessionGenArea(s)
        \/ SessionGenItem(s)
        \/ SessionGenCommit(s)
        \/ SessionGenFail(s)

ConcurrentSpec == ConcInit /\ [][ConcNext]_vars

\* the catalog of asset types: requests of an administrator against an empty
\* table location_types
CatalogInit == ParserIdle /\ SysInit /\ CatalogIdle /\ ConcIdle

CatalogNext ==
    \/ \E name \in RequestNames, description \in RequestDescriptions,
          template_text \in RequestTemplates :
            create_asset_type(name, description, template_text)
    \/ initialize_defaults

CatalogSpec == CatalogInit /\ [][CatalogNext]_vars

----------------------------------------------------------------------------
(* Review scheduling (C1 - C4), checked under Spec *)

UpdatesOf(it) == {u \in updates : u.work_item_id = it.id}
DatedUpdatesOf(it) == {u \in UpdatesOf(it) : u.review_date.some}
IsPast(u) == u.review_date.some /\ u.review_date.val < now
InWindow(u) ==
    u.review_date.some /\ now <= u.review_date.val /\ u.review_date.val <= now + DueWindowDays

C2_DueSoonMembership ==
    \A org \in Organizations : \A it \in OrgItems(org) :
        /\ it \in get_items_due_next_month(org) <=> (\E u \in UpdatesOf(it) : InWindow(u))
        /\ (/\ DatedUpdatesOf(it) # {}
            /\ \A u \in DatedUpdatesOf(it) : u.review_date.val = now + DueWindowDays)
               => it \in get_items_due_next_month(org)
        /\ (/\ DatedUpdatesOf(it) # {}
            /\ \A u \in DatedUpdatesOf(it) : u.review_date.val = now + DueWindowDays + 1)
               => /\ it \notin get_items_due_next_month(org)
                  /\ it \notin get_outstanding_items_for_org(org)

\* reached: one item whose only review date is now + 30 days and is listed as
\* due-soon, another whose only review date is now + 31 days
C2_Witness ==
    \E org \in Organizations : \E it, other \in OrgItems(org) :
        /\ Cardinality(UpdatesOf(it)) = 1
        /\ \A u \in UpdatesOf(it) : u.review_date = SomeDate(now + DueWindowDays)
        /\ it \in get_items_due_next_month(org)
        /\ Cardinality(UpdatesOf(other)) = 1
        /\ \A u \in UpdatesOf(other) : u.review_date = SomeDate(now + DueWindowDays + 1)

\* the most recently created update that carries a review date
LastDated(it) == CHOOSE u \in DatedUpdatesOf(it) : \A v \in DatedUpdatesOf(it) : v.id <= u.id

\* C3: the most recent update that carries a review date decides: an item whose
\* most recent such update has a review date at or after now is not in the
\* outstanding set, whatever earlier updates say.
C3_LatestUpdateDecides ==
    \A org \in Organizations : \A it \in OrgItems(org) :
        (DatedUpdatesOf(it) # {} /\ LastDated(it).review_date.val >= now)
            => it \notin get_outstanding_items_for_org(org)

\* items with one update past its review date and another inside the window
DualItems(org) ==
    {it \in OrgItems(org) :
        \E u, v \in UpdatesOf(it) : IsPast(u) /\ InWindow(v)}

----------------------------------------------------------------------------
(* Work generation (C5 - C8), checked under Spec *)

Ids(rows) == {r.id : r \in rows}

\* C5: generation is atomic: while a call runs no other transaction sees any of
\* its rows; after a call that failed, at whatever point of its loop, the stored
\* work areas and items are those from before the call; after a call that
\* returned, all areas and all items of the template are stored.
C5_GenerationAtomic ==
    /\ gen.pc # "idle" => Ids(areas) = gen.preAreaIds /\ Ids(items) = gen.preItemIds
    /\ last.status = "failed" =>
          /\ Ids(last.postAreas) = last.preAreaIds
          /\ Ids(last.postItems) = last.preItemIds
    /\ last.status = "ok" =>
          /\ Cardinality(Ids(last.postAreas) \ last.preAreaIds) = Len(last.areas_data)
          /\ Cardinality(Ids(last.postItems) \ last.preItemIds) = SumTasks(last.areas_data)

\* reached: a call failed after it had flushed an area and added an item, and
\* before it had created all areas of its template
C5_Witness ==
    /\ last.status = "failed"
    /\ last.partial

\* C6: a call that returns has created, for each (area, tasks) pair of the parsed
\* template in order, one WorkArea of the given asset with the area title as
\* statement and is_relevant = true, and one WorkItem per task, in task order,
\* owned by that area, with the task text as statement and description = null;
\* as many areas and items as were parsed; and it returns the areas in template
\* order.
C6_GenerationResult ==
    last.status = "ok" =>
        LET data == last.areas_data
            created == last.created
            newAreas == {ar \in last.postAreas : ar.id \notin last.preAreaIds}
            newItems == {it \in last.postItems : it.id \notin last.preItemIds}
        IN /\ Len(created) = Len(data)
           /\ Cardinality(newAreas) = Len(data)
           /\ Cardinality(newItems) = SumTasks(data)
           /\ Ids(newAreas) = {created[k] : k \in 1..Len(created)}
           /\ \A k \in 1..Len(data) :
                /\ [id |-> created[k], asset_id |-> last.asset,
                    statement |-> data[k][1], is_relevant |-> TRUE] \in newAreas
                /\ LET owned == InIdOrder({it \in newItems : it.work_area_id = created[k]})
                   IN /\ Len(owned) = Len(data[k][2])
                      /\ \A n \in 1..Len(owned) :
                            /\ owned[n].statement = data[k][2][n]
                            /\ owned[n].description = Null
           /\ \A k, n \in 1..Len(created) : k < n => created[k] < created[n]

\* reached: a call returned two areas, the first with two items
C6_Witness ==
    /\ last.status = "ok"
    /\ Len(last.created) = 2
    /\ Cardinality({it \in last.postItems : it.work_area_id = last.created[1]}) = 2
    /\ last.preAreaIds # {}

\* a step of add_asset_to_location or of generate_work_items_from_template
GenerationStep ==
    \/ \E loc \in Locations, t \in LocationTypes : AddAsset(loc.id, t.id)
    \/ \E loc \in Locations, t \in LocationTypes : AddAssetFail(loc.id, t.id)
    \/ \E a \in assets : Regenerate(a.id)
    \/ GenArea
    \/ GenItem
    \/ GenCommit
    \/ GenFail

\* C7: generation only adds: every step of a generation call, whether the call
\* returns or fails, leaves every stored work area and work item in place with
\* all its fields.
C7_GenerationAdditive ==
    [][GenerationStep => (areas \subseteq areas' /\ items \subseteq items')]_vars

\* reached: a call has ended, by returning or by failing, with work areas and
\* items stored before it that are still stored
C7_Witness ==
    /\ last.status \in {"ok", "failed"}
    /\ last.preAreaIds # {}
    /\ last.preItemIds # {}
    /\ last.preAreaIds \subseteq Ids(areas)

\* the work items below the work areas of an asset
ItemsOfAsset(asset_id) ==
    {it \in items : \E ar \in areas : ar.id = it.work_area_id /\ ar.asset_id = asset_id}

\* what the parser returns for the template of each asset type
ParsedTemplates ==
    [id \in {t.id : t \in LocationTypes} |->
        parse_markdown_template((CHOOSE t \in LocationTypes : t.id = id).template)]

\* C8: generation does not deduplicate: after n calls that returned for one asset
\* the asset has n times the areas and n times the items of its template, all
\* with distinct ids; the second call merges or skips nothing.
C8_NoDeduplication ==
    /\ \A a \in assets :
         \A t \in get_location_type_by_id(a.asset_type_id) :
            LET data == ParsedTemplates[t.id] IN
            /\ Cardinality(Ids({ar \in areas : ar.asset_id = a.id}))
                  = genOk[a.id] * Len(data)
            /\ Cardinality(Ids(ItemsOfAsset(a.id))) = genOk[a.id] * SumTasks(data)
    /\ Cardinality(Ids(areas)) = Cardinality(areas)
    /\ Cardinality(Ids(items)) = Cardinality(items)

\* reached: two calls returned for the same asset with a template of two areas
C8_Witness ==
    \E a \in assets :
        /\ genOk[a.id] = 2
        /\ Cardinality({ar \in areas : ar.asset_id = a.id}) = 4
        /\ Cardinality(ItemsOfAsset(a.id)) = 4

----------------------------------------------------------------------------
(* Template parser (C9, C10), checked under ParserSpec *)

\* the lines of the document, each stripped, as the loop reads them
StrippedLines(t) == LET ls == Split(t, "\n") IN [n \in 1..Len(ls) |-> Strip(ls[n])]

HeadingLines(t) ==
    LET ls == StrippedLines(t) IN {n \in 1..Len(ls) : IsHeading(ls[n])}

\* the heading lines that open an area with a title
TitledHeadings(t) ==
    LET ls == StrippedLines(t) IN {n \in HeadingLines(t) : HeadingTitle(ls[n]) # <<>>}

\* the first heading line after line n, or the line past the end of the input
SectionEnd(t, n) ==
    LET later == {m \in HeadingLines(t) : m > n}
    IN IF later = {} THEN Len(StrippedLines(t)) + 1
       ELSE CHOOSE m \in later : \A q \in later : m <= q

\* the bullet lines with a text that lie between heading line n and the next one
TaskLines(t, n) ==
    LET ls == StrippedLines(t)
    IN {m \in (n + 1)..(SectionEnd(t, n) - 1) :
            IsBullet(ls[m]) /\ BulletText(ls[m]) # <<>>}

RECURSIVE Ascending(_)
Ascending(S) ==
    IF S = {} THEN <<>>
    ELSE LET least == CHOOSE n \in S : \A q \in S : n <= q
         IN <<least>> \o Ascending(S \ {least})

C10_OneAreaPerHeading ==
    ppc = "done" => Len(parsed) = Cardinality(HeadingLines(template))

----------------------------------------------------------------------------
(* Template parser (C11 - C13), checked under ParserSpec *)

Min(S) == CHOOSE m \in S : \A x \in S : m <= x

\* the first heading line, or the line past the end of the input
FirstHeading(t) ==
    LET heads == HeadingLines(t)
    IN IF heads = {} THEN Len(Split(t, "\n")) + 1 ELSE Min(heads)

\* the bullet lines with a text that lie before the first heading
OrphanBullets(t) ==
    LET ls == StrippedLines(t)
    IN {m \in 1..(FirstHeading(t) - 1) : IsBullet(ls[m]) /\ BulletText(ls[m]) # <<>>}

\* the bullet lines with a text from the first heading on
OwnedBullets(t) ==
    LET ls == StrippedLines(t)
    IN {m \in FirstHeading(t)..Len(ls) : IsBullet(ls[m]) /\ BulletText(ls[m]) # <<>>}

\* the document from its first heading line on
FromFirstHeading(t) ==
    LET ls == Split(t, "\n") IN Join(SubSeq(ls, FirstHeading(t), Len(ls)), "\n")

\* C11: a bullet line before the first heading is discarded: the call returns,
\* its result is the one of the document without the lines before the first
\* heading, no area exists without a heading line, and the tasks of all areas
\* are at most the bullet lines from the first heading on.
C11_OrphanBulletsDiscarded ==
    ppc = "done" =>
        /\ parsed = parse_markdown_template(FromFirstHeading(template))
        /\ Len(parsed) <= Cardinality(HeadingLines(template))
        /\ SumTasks(parsed) <= Cardinality(OwnedBullets(template))

\* reached: a document with a bullet before its first heading was parsed to an
\* area that has a task
C11_Witness ==
    /\ ppc = "done"
    /\ OrphanBullets(template) # {}
    /\ parsed # <<>>
    /\ parsed[1][2] # <<>>

\* the text of a stripped line after its first n characters, trimmed
TextAfterMarker(line, n) == Strip(SubSeq(line, n + 1, Len(line)))

\* the length of the marker of a heading line: "##" or "###"
MarkerLen(line) == IF StartsWith(line, H3) THEN 3 ELSE 2

\* the bullet lines between heading line n and the next heading
BulletLines(t, n) ==
    LET ls == StrippedLines(t)
    IN {m \in (n + 1)..(SectionEnd(t, n) - 1) : IsBullet(ls[m])}

\* C12: only the marker and the surrounding whitespace are removed: the title of
\* an area is the text of its heading line after the "##" or "###" marker,
\* trimmed, and a task is the text of its bullet line after the single "-" or
\* "*" marker, trimmed; content that begins with "#", "-" or "*" is kept.
C12_OnlyMarkerRemoved ==
    ppc = "done" =>
        LET ls == StrippedLines(template)
            heads == Ascending(HeadingLines(template))
        IN /\ Len(parsed) = Len(heads)
           /\ \A k \in 1..Len(heads) :
                LET tasks == Ascending(BulletLines(template, heads[k]))
                IN /\ parsed[k][1] = TextAfterMarker(ls[heads[k]], MarkerLen(ls[heads[k]]))
                   /\ Len(parsed[k][2]) = Len(tasks)
                   /\ \A n \in 1..Len(tasks) :
                         parsed[k][2][n] = TextAfterMarker(ls[tasks[n]], 1)

\* the lines that are neither heading nor bullet: blank lines, prose, headings
\* of the first or of the fourth level
OtherLines(t) ==
    LET ls == StrippedLines(t)
    IN {n \in 1..Len(ls) : ~IsHeading(ls[n]) /\ ~IsBullet(ls[n])}

RECURSIVE SelectLines(_, _, _)
\* the lines of ls whose position, counted from k, is not in the set drop
SelectLines(ls, k, drop) ==
    IF ls = <<>> THEN <<>>
    ELSE (IF k \in drop THEN <<>> ELSE <<Head(ls)>>) \o SelectLines(Tail(ls), k + 1, drop)

\* the document with its other lines removed
WithoutOtherLines(t) == Join(SelectLines(Split(t, "\n"), 1, OtherLines(t)), "\n")

\* C13: the call returns a list of (title, tasks) pairs for every input; a
\* document without a heading line yields the empty sequence; lines that are
\* neither headings nor bullets do not change the output: the result is the one
\* of the document without them.
C13_OtherLinesIgnored ==
    ppc = "done" =>
        /\ \A k \in 1..Len(parsed) :
              /\ Len(parsed[k]) = 2
              /\ parsed[k][1] # <<>>
              /\ \A n \in 1..Len(parsed[k][2]) : parsed[k][2][n] # <<>>
        /\ HeadingLines(template) = {} => parsed = <<>>
        /\ parsed = parse_markdown_template(WithoutOtherLines(template))

\* reached: a parsed document in which a line that is not blank and neither
\* heading nor bullet stands between a heading and a bullet of its area
C13_Witness ==
    /\ ppc = "done"
    /\ parsed # <<>>
    /\ \E n \in OtherLines(template) :
          /\ StrippedLines(template)[n] # <<>>
          /\ \E h \in TitledHeadings(template) :
                /\ h < n
                /\ \E m \in TaskLines(template, h) : n < m

----------------------------------------------------------------------------
(* Dashboard listings and statistics (C14 - C17), checked under Spec *)

\* the update of an item with the highest id
LastUpdate(it) == CHOOSE u \in UpdatesOf(it) : \A v \in UpdatesOf(it) : v.id <= u.id

\* the responses of the two listings to a user of the organization
Listings(user) ==
    get_outstanding_items(user, user.organization_id)
        \cup get_due_soon_items(user, user.organization_id)

TreeItems(org) ==
    {it \in items :
        \E ar \in areas : \E a \in assets : \E loc \in Locations :
            /\ it.work_area_id = ar.id
            /\ ar.asset_id = a.id
            /\ a.location_id = loc.id
            /\ loc.organization_id = org}

\* the ids of the rows of a listing
RowIds(body) == {body[k].id : k \in 1..Len(body)}

\* C15: for one instant, the stats agree with the listings: outstanding_count is
\* the number of rows of the outstanding listing, due_next_month_count the number
\* of rows of the due-soon listing, total_items the number of work items of the
\* organization's tree, and no item has two rows in a listing.
C15_StatsAgreeWithListings ==
    \A user \in CurrentUsers :
        LET org == user.organization_id
            stats == get_dashboard_stats(user, org).body
        IN /\ \A resp \in get_outstanding_items(user, org) :
                /\ Len(resp.body) = stats.outstanding_count
                /\ Cardinality(RowIds(resp.body)) = Len(resp.body)
           /\ \A resp \in get_due_soon_items(user, org) :
                /\ Len(resp.body) = stats.due_next_month_count
                /\ Cardinality(RowIds(resp.body)) = Len(resp.body)
           /\ stats.total_items = Cardinality(TreeItems(org))

\* reached: an organization whose counts are all different from zero and do not
\* add up to the total
C15_Witness ==
    \E user \in CurrentUsers :
        LET org == user.organization_id
            stats == get_dashboard_stats(user, org).body
        IN /\ stats.total_items > 0
           /\ stats.outstanding_count > 0
           /\ stats.due_next_month_count > 0
           /\ stats.outstanding_count + stats.due_next_month_count # stats.total_items

\* the organization of the location of an asset
AssetOrg(asset_id) ==
    LET a == CHOOSE x \in assets : x.id = asset_id
    IN (CHOOSE loc \in Locations : loc.id = a.location_id).organization_id

\* what the aggregator answers to a user of the organization
OrgView(org) ==
    LET user == [id |-> 1, organization_id |-> org]
    IN [stats |-> get_dashboard_stats(user, org),
        outstanding |-> get_outstanding_items(user, org),
        due_soon |-> get_due_soon_items(user, org)]

\* a step that attaches an asset, generates or adds an update outside the
\* organization
OtherOrgStep(org) ==
    \/ \E loc \in Locations, t \in LocationTypes :
          loc.organization_id # org /\ AddAsset(loc.id, t.id)
    \/ \E a \in assets : AssetOrg(a.id) # org /\ Regenerate(a.id)
    \/ /\ gen.pc # "idle"
       /\ AssetOrg(gen.asset) # org
       /\ (GenArea \/ GenItem \/ GenCommit \/ GenFail)
    \/ \E item_id \in Ids(items) \ Ids(TreeItems(org)), user_id \in Users,
          narrative \in Narratives,
          review_date \in {NullDate} \cup {SomeDate(now + d) : d \in ReviewOffsets} :
            AddUpdate(item_id, user_id, narrative, review_date)

\* C16: the aggregator is scoped by organization: the rows of the listings of an
\* organization are work items of its own tree, and no step that attaches an
\* asset, generates or adds an update in another organization changes its stats
\* or its listings.
C16_ScopedByOrganization ==
    /\ [](\A org \in Organizations :
            \A resp \in OrgView(org).outstanding \cup OrgView(org).due_soon :
                RowIds(resp.body) \subseteq Ids(TreeItems(org)))
    /\ [][\A org \in Organizations : OtherOrgStep(org) => OrgView(org)' = OrgView(org)]_vars

\* reached: an organization with work items, while another organization has
\* work items with an update that is past its review date
C16_Witness ==
    \E org \in Organizations :
        /\ TreeItems(org) # {}
        /\ OrgView(org).stats.body.outstanding_count = Cardinality(TreeItems(org))
        /\ \E u \in updates :
              /\ u.work_item_id \notin Ids(TreeItems(org))
              /\ IsPast(u)

\* C17: the rows of the outstanding and of the due-soon listing are ordered by
\* work item id, ascending, in every state.
C17_RowsInIdOrder ==
    \A user \in CurrentUsers : \A resp \in Listings(user) :
        \A k, n \in 1..Len(resp.body) : k < n => resp.body[k].id < resp.body[n].id

----------------------------------------------------------------------------
(* Update history (C18), checked under Spec *)

\* C18: the update history is append-only: no step removes or changes an update;
\* an add_update_to_item for an existing work item adds exactly one update, with
\* a new id, the given author, narrative and review date, to the targeted item
\* and leaves the history of every other item as it was; no other step adds one.
C18_HistoryAppendOnly ==
    [][/\ updates \subseteq updates'
       /\ Cardinality(updates' \ updates) <= 1
       /\ \A u \in updates' \ updates :
             /\ u.id \notin Ids(updates)
             /\ u.created_at = now
             /\ get_work_item_by_id(u.work_item_id) # {}
             /\ requests' = requests + 1
             /\ AddUpdate(u.work_item_id, u.user_id, u.narrative, u.review_date)
             /\ \A it \in items :
                   it.id # u.work_item_id => UpdatesOf(it)' = UpdatesOf(it)
       /\ \A item_id \in Ids(items), user_id \in Users, narrative \in Narratives,
             review_date \in {NullDate} \cup {SomeDate(now + d) : d \in ReviewOffsets} :
               AddUpdate(item_id, user_id, narrative, review_date) =>
                   \E u \in updates' \ updates :
                       /\ u.work_item_id = item_id
                       /\ u.user_id = user_id
                       /\ u.narrative = narrative
                       /\ u.review_date = review_date
       /\ (areas' # areas \/ items' # items \/ assets' # assets \/ gen' # gen \/ now' # now)
             => updates' = updates
      ]_vars

\* reached: the second update of an item has been added, after the clock has
\* advanced, and the first is still stored; another item has no update
C18_Witness ==
    \E it, other \in items :
        /\ it.id # other.id
        /\ UpdatesOf(other) = {}
        /\ \E u, v \in UpdatesOf(it) : u.id < v.id /\ u.created_at < v.created_at

----------------------------------------------------------------------------
(* Failures around attachment (C19), checked under Spec *)

\* C19: when the attachment fails, the call raises and no asset, work area or
\* work item is stored and no generation runs; when the generation started by
\* add_asset_to_location fails, that call raises, the asset stays stored, the
\* work areas and items are those from before, the asset has none, and no
\* generation is left running; a generation only starts with a request.
C19_AttachmentFailures ==
    [][/\ (\E loc \in Locations, t \in LocationTypes : AddAssetFail(loc.id, t.id)) =>
             /\ last'.add_asset = "raised"
             /\ assets' = assets /\ areas' = areas /\ items' = items
             /\ gen'.pc = "idle"
       /\ (gen.caller = "add_asset_to_location" /\ gen'.pc = "idle"
              /\ last'.status = "failed") =>
             /\ last'.add_asset = "raised"
             /\ assets' = assets
             /\ gen.asset \in Ids(assets')
             /\ areas' = areas /\ items' = items
             /\ {ar \in areas' : ar.asset_id = gen.asset} = {}
       /\ (gen.pc = "idle" /\ gen'.pc # "idle") => requests' = requests + 1
      ]_vars

\* reached: the generation of an attachment failed after it had flushed an area
\* and added an item; the asset is stored and has no work area
C19_Witness ==
    /\ last.status = "failed"
    /\ last.caller = "add_asset_to_location"
    /\ last.add_asset = "raised"
    /\ last.partial
    /\ last.asset \in Ids(assets)
    /\ {ar \in areas : ar.asset_id = last.asset} = {}

----------------------------------------------------------------------------
(* Access to the dashboard (C20), checked under Spec *)

\* a response that carries the 403 status and neither counts nor rows
IsForbidden(resp) == resp.status = 403 /\ "body" \notin DOMAIN resp

\* C20: each of the three dashboard endpoints answers a user whose
\* organization_id differs from the org_id of the path with 403 and without
\* counts or rows, and answers a user of the organization with its data.
C20_ForbiddenAcrossOrganizations ==
    \A user \in CurrentUsers : \A org \in Organizations :
        IF user.organization_id # org
        THEN /\ IsForbidden(get_dashboard_stats(user, org))
             /\ \A resp \in get_outstanding_items(user, org) : IsForbidden(resp)
             /\ \A resp \in get_due_soon_items(user, org) : IsForbidden(resp)
        ELSE /\ get_dashboard_stats(user, org) = Ok(DashboardStats(org))
             /\ \A resp \in get_outstanding_items(user, org) :
                   /\ resp.status = 200
                   /\ RowIds(resp.body) = Ids(get_outstanding_items_for_org(org))
             /\ \A resp \in get_due_soon_items(user, org) :
                   /\ resp.status = 200
                   /\ RowIds(resp.body) = Ids(get_items_due_next_month(org))

\* reached: an organization has outstanding and due-soon work items, and a user
\* of the other organization asks for them
C20_Witness ==
    \E user \in CurrentUsers : \E org \in Organizations :
        /\ user.organization_id # org
        /\ get_outstanding_items_for_org(org) # {}
        /\ get_items_due_next_month(org) # {}
        /\ IsForbidden(get_dashboard_stats(user, org))
        /\ get_due_soon_items(user, org) = {Forbidden}

----------------------------------------------------------------------------
(* Asset type catalog (C21), checked under CatalogSpec *)

\* every DEFAULT_ASSET_TYPES name is the name of a stored asset type
DefaultsStored == \A n \in DOMAIN DEFAULT_ASSET_TYPES : TypeByName(catalog, n) # {}

\* a request to create an asset type whose name is already stored
CreateStoredName ==
    \E name \in RequestNames, description \in RequestDescriptions,
       template_text \in RequestTemplates :
        /\ TypeByName(catalog, name) # {}
        /\ create_asset_type(name, description, template_text)

\* C21: asset type names are unique in every state of the catalog; creating an
\* asset type whose name is stored is answered 409 and leaves the catalog as it
\* is; a call of initialize-defaults stores every default, and a second call
\* creates no asset type and returns as many asset types as the first.
C21_UniqueAssetTypeNames ==
    /\ [](\A a, b \in catalog : a.name = b.name => a = b)
    /\ [][CreateStoredName => (reply'.status = 409 /\ catalog' = catalog)]_vars
    /\ [][initialize_defaults =>
            /\ DefaultsStored'
            /\ reply'.status = 201
            /\ reply'.count = Cardinality(catalog')
            /\ DefaultsStored => catalog' = catalog
            /\ reply.op = "initialize_defaults" =>
                  (reply'.count = reply.count /\ reply'.created = 0)]_vars
    /\ [][DefaultsStored => DefaultsStored']_vars

\* reached: initialize-defaults was called twice, after an asset type with the
\* name of a default and one with another name had been created; the second
\* call created nothing
C21_Witness ==
    /\ reply.op = "initialize_defaults"
    /\ reply.created = 0
    /\ reply.count = Len(DefaultNames)
    /\ \E t \in catalog : t.name = "Church" /\ t.description \in RequestDescriptions

----------------------------------------------------------------------------
(* Origin of work areas and work items (C22), checked under WorkItemsSpec *)

\* the step stores a work area or a work item that was not stored
StoresNewWork == ~(Ids(areas') \subseteq Ids(areas)) \/ ~(Ids(items') \subseteq Ids(items))

\* the step is the commit of a generation call
CommitsGeneration == gen.pc = "commit" /\ gen'.pc = "idle" /\ last'.status = "ok"

----------------------------------------------------------------------------
(* Removal of assets (C23, C28), checked under ManagerSpec *)

\* the generation call of an attachment is running and the row of its asset
\* is no longer stored
AssetVanished ==
    /\ gen.pc # "idle"
    /\ gen.caller = "add_asset_to_location"
    /\ get_location_asset(gen.asset) = {}

\* C23: when the asset of a running generation call has been removed after its
\* attachment committed, the call ends by signalling the failure to its caller
\* and stores no work area and no work item.
C23_VanishedAssetNotFound ==
    [][AssetVanished =>
        /\ areas' = areas
        /\ items' = items
        /\ gen'.pc = "idle" => last'.status = "failed"]_vars

\* C28: referential integrity: the asset_id of every stored work area is the id
\* of a stored asset and the work_area_id of every stored work item is the id of
\* a stored work area, whatever assets have been attached and removed.
C28_ReferentialIntegrity ==
    /\ \A ar \in areas : get_location_asset(ar.asset_id) # {}
    /\ \A it \in items : get_work_area_by_id(it.work_area_id) # {}

----------------------------------------------------------------------------
(* Concurrent generation (C24), checked under ConcurrentSpec *)

\* the work stored for an asset, without primary keys: its areas in key order,
\* each with its statement and the statements of its items in key order
WorkOf(asset_id) ==
    LET ars == InIdOrder(work_areas_of(asset_id))
    IN [k \in 1..Len(ars) |->
          <<ars[k].statement,
            LET its == InIdOrder({it \in items : it.work_area_id = ars[k].id})
            IN [n \in 1..Len(its) |-> its[n].statement]>>]

\* what a call contributes when the calls run one after the other: the parsed
\* template when it returned, nothing when it failed
Contribution(s) == IF sess[s].pc = "returned" THEN sess[s].areas_data ELSE <<>>

\* the work areas that a call running alone creates from its data for its
\* asset on a table whose greatest key is base
SerialAreas(asset_id, data, base) ==
    {[id |-> base + k, asset_id |-> asset_id, statement |-> data[k][1],
      is_relevant |-> TRUE] : k \in 1..Len(data)}

\* and the work items it creates
SerialItems(data, area_base, item_base) ==
    UNION {{[id |-> item_base + SumTasks(SubSeq(data, 1, k - 1)) + n,
             work_area_id |-> area_base + k, statement |-> data[k][2][n],
             description |-> Null] : n \in 1..Len(data[k][2])} : k \in 1..Len(data)}

\* the tables after the call of session s and then the call of session t
SerialRun(s, t) ==
    LET ds == Contribution(s)
        dt == Contribution(t)
    IN [areas |-> SerialAreas(sess[s].asset, ds, 0)
                    \cup SerialAreas(sess[t].asset, dt, Len(ds)),
        items |-> SerialItems(ds, 0, 0) \cup SerialItems(dt, Len(ds), SumTasks(ds))]

----------------------------------------------------------------------------
(* An update for a work item that does not exist (C25), under ManagerSpec *)

\* the arguments of a request that adds an update
UpdateRequests ==
    [item_id : 1..NextId(items), user_id : Users, narrative : Narratives,
     review_date : {NullDate} \cup {SomeDate(now + d) : d \in ReviewOffsets}]

\* the request names an item that is not stored
UnknownItem(rq) == get_work_item_by_id(rq.item_id) = {}

\* nothing of the stored data changes in the step
NothingStored == UNCHANGED <<assets, areas, items, updates, now>>

\* C25: adding an update to a work item that does not exist creates no Update
\* and changes nothing: the service call returns None (the table it leaves is
\* the table it found), the endpoint answers 404, and the one step is all that
\* happens: the call is not repeated.
C25_UpdateOfUnknownItem ==
    /\ [](\A rq \in UpdateRequests : UnknownItem(rq) =>
            add_update_to_item(rq.item_id, rq.user_id, rq.narrative, rq.review_date)
                = updates)
    /\ [][\A rq \in UpdateRequests :
            /\ UnknownItem(rq)
            /\ \/ AddUpdate(rq.item_id, rq.user_id, rq.narrative, rq.review_date)
               \/ add_item_update(rq.item_id, rq.user_id, rq.narrative, rq.review_date)
            => /\ NothingStored
               /\ requests' = requests + 1
               /\ reply' # reply => reply' = Replied("add_item_update", 404)]_vars
    /\ [][\A rq \in UpdateRequests :
            /\ UnknownItem(rq)
            /\ add_item_update(rq.item_id, rq.user_id, rq.narrative, rq.review_date)
            => reply'.status = 404]_vars

\* reached: the endpoint has answered 404 while work items and an update are
\* stored
C25_Witness ==
    /\ reply = Replied("add_item_update", 404)
    /\ items # {}
    /\ updates # {}

----------------------------------------------------------------------------
(* Outstanding for good (C26), under ManagerSpec *)

\* the item has an update whose review date lies before the clock
PastReview(it) ==
    \E u \in updates :
        u.work_item_id = it.id /\ u.review_date.some /\ u.review_date.val < now

\* the item is in the outstanding listing of the organization because a review
\* date has passed
OutstandingByPastReview(org_id, it) ==
    it \in get_outstanding_items_for_org(org_id) /\ PastReview(it)

----------------------------------------------------------------------------
(* From due soon to outstanding (C27), under ManagerFairSpec *)

\* the keys that work items can carry
ItemKeys == 1..(2 * MaxRequests)

\* the item with this key is in the due-soon listing of the organization
IsDueSoon(org_id, item_id) ==
    \E it \in get_items_due_next_month(org_id) : it.id = item_id

\* the item with this key is in the outstanding listing of the organization
IsOutstanding(org_id, item_id) ==
    \E it \in get_outstanding_items_for_org(org_id) : it.id = item_id

\* the item has a review date that the clock of the model can pass
ReviewWithinClock(item_id) ==
    \E u \in updates :
        u.work_item_id = item_id /\ u.review_date.some /\ u.review_date.val < MaxNow

----------------------------------------------------------------------------
(* Counts and listings within the total (C29), under Spec *)

\* the work items that total_items counts
CountedItems(org_id) == {row[1].id : row \in JoinedRows(org_id)}

\* a listing has no work item in two of its rows and only counted work items
WithinTotal(body, org_id) ==
    /\ \A j, k \in 1..Len(body) : body[j].id = body[k].id => j = k
    /\ \A k \in 1..Len(body) : body[k].id \in CountedItems(org_id)

\* C29: for one instant, outstanding_count <= total_items and
\* due_next_month_count <= total_items, and each of the two listings holds a work
\* item at most once and only work items that the total counts.
C29_CountsWithinTotal ==
    \A user \in CurrentUsers :
        LET org == user.organization_id
            stats == get_dashboard_stats(user, org).body
        IN /\ stats.outstanding_count <= stats.total_items
           /\ stats.due_next_month_count <= stats.total_items
           /\ \A resp \in get_outstanding_items(user, org) : WithinTotal(resp.body, org)
           /\ \A resp \in get_due_soon_items(user, org) : WithinTotal(resp.body, org)

\* reached: an organization with a work item in both listings and fewer work
\* items due soon than outstanding
C29_Witness ==
    \E user \in CurrentUsers :
        LET org == user.organization_id
            stats == get_dashboard_stats(user, org).body
        IN /\ \E it \in get_outstanding_items_for_org(org) :
                it \in get_items_due_next_month(org)
           /\ stats.due_next_month_count < stats.outstanding_count
           /\ stats.due_next_month_count > 0

----------------------------------------------------------------------------
(* The frame of a relevance update (C30), under ManagerSpec *)

\* what the dashboard answers for an organization: the three results as sets
\* of work items, the counts, and the two listings
DashboardOf(org_id) ==
    [outstanding |-> get_outstanding_items_for_org(org_id),
     due_soon |-> get_items_due_next_month(org_id),
     total |-> OrgItems(org_id),
     stats |-> DashboardStats(org_id),
     listings |-> {<<get_outstanding_items(user, org_id), get_due_soon_items(user, org_id)>> :
                      user \in {u \in CurrentUsers : u.organization_id = org_id}}]

\* the table of work areas differs at most in the flag of the area area_id,
\* which is now is_relevant
OnlyFlagOf(area_id, is_relevant) ==
    /\ Ids(areas') = Ids(areas)
    /\ Cardinality(areas') = Cardinality(areas)
    /\ \A ar \in areas :
          IF ar.id = area_id
          THEN [ar EXCEPT !.is_relevant = is_relevant] \in areas'
          ELSE ar \in areas'

====
